---------------------------- MODULE Spec2Model ----------------------------
(***************************************************************************)
(* Notation.Glob of src/esm-imports-fix.mjs: covers, intersect, compare,   *)
(* sort and normalize over lists of glob notations.                        *)
(*                                                                         *)
(* A glob string is modelled by the record [neg, notes]: neg is the        *)
(* leading "!" and notes the tokens reMATCHER splits the rest into.  The   *)
(* notes come from the alphabet Notes below, on which the strings and the  *)
(* note sequences determine each other (joinNotes puts "." before a note   *)
(* that does not start with "[").  Where the code reads the characters of  *)
(* a string (its length, its alphabetical order) the model reads str(g),   *)
(* the sequence of UTF-16 code units of the string.                        *)
(***************************************************************************)
EXTENDS Integers, Sequences, FiniteSets, TLC

(***************************************************************************)
(* Bounds of the model.                                                    *)
(***************************************************************************)
MaxLen == 3      \* patterns in a list handed to normalize
MaxDepth == 2    \* notes in a pattern of such a list

(***************************************************************************)
(* Notes.                                                                  *)
(***************************************************************************)
Star == "*"
ArrStar == "[*]"
Keys == {"x", "y"}
Indexes == {"[0]", "[1]", "[2]", "[3]"}
Notes == {Star, ArrStar} \cup Keys \cup Indexes

\* the code units of a note, as it stands in a glob string
chars(n) ==
    CASE n = "*"   -> <<42>>
      [] n = "[*]" -> <<91, 42, 93>>
      [] n = "[0]" -> <<91, 48, 93>>
      [] n = "[1]" -> <<91, 49, 93>>
      [] n = "[2]" -> <<91, 50, 93>>
      [] n = "[3]" -> <<91, 51, 93>>
      [] n = "x"   -> <<120>>
      [] n = "y"   -> <<121>>
      [] n = "z"   -> <<122>>
      [] n = "1x"  -> <<49, 120>>

\* re.WILDCARD
WILDCARD(n) == n \in {Star, ArrStar}

\* re.ARRAY_GLOB_NOTE
ARRAY_GLOB_NOTE(n) == n = ArrStar \/ n \in Indexes

\* utils.normalizeNote: a key is its string, an array note is its number
\* (a number and a string are never equal under ===)
normalizeNote(n) ==
    CASE n = "[0]" -> <<"number", 0>>
      [] n = "[1]" -> <<"number", 1>>
      [] n = "[2]" -> <<"number", 2>>
      [] n = "[3]" -> <<"number", 3>>
      [] OTHER     -> <<"string", n>>

(***************************************************************************)
(* Strings.                                                                *)
(***************************************************************************)
RECURSIVE joinChars(_, _)
\* utils.joinNotes: each note, followed by "." unless it is the last note
\* or the next one starts with "["
joinChars(notes, i) ==
    IF i > Len(notes) THEN <<>>
    ELSE LET dot == IF i < Len(notes) /\ chars(notes[i + 1])[1] # 91
                    THEN <<46>> ELSE <<>>
         IN  chars(notes[i]) \o dot \o joinChars(notes, i + 1)

\* the glob string of g: "!" when negated, then the joined notes
str(g) == (IF g.neg THEN <<33>> ELSE <<>>) \o joinChars(g.notes, 1)

\* re.VAR: the syntax of a JavaScript variable; "1x" starts with a digit
VAR(n) == n \in Keys \cup {"z"}

\* Glob.isValid(glob): reVALIDATOR accepts the string of notes that are
\* each a variable, an array note or a wildcard
isValid(g) ==
    /\ Len(g.notes) > 0
    /\ \A i \in 1..Len(g.notes) :
           VAR(g.notes[i]) \/ ARRAY_GLOB_NOTE(g.notes[i]) \/ g.notes[i] = Star

\* re.WILDCARDS.test(glob): a "*" somewhere in the string (no note of the
\* model is quoted)
WILDCARDS(s) == \E i \in 1..Len(s) : s[i] = 42

\* hasMagic without the test of the bang
hasMagicNoBang(g) == isValid(g) /\ WILDCARDS(str(g))

\* Glob.hasMagic(glob)
hasMagic(g) == isValid(g) /\ (WILDCARDS(str(g)) \/ str(g)[1] = 33)

RECURSIVE strLess(_, _, _)
\* s < t on strings (JavaScript compares code unit by code unit)
strLess(s, t, i) ==
    IF i > Len(t) THEN FALSE
    ELSE IF i > Len(s) THEN TRUE
    ELSE IF s[i] # t[i] THEN s[i] < t[i]
    ELSE strLess(s, t, i + 1)

Glob(neg, notes) == [neg |-> neg, notes |-> notes]

RECURSIVE stripTrail(_)
\* NON_NEG_WILDCARD_TRAIL: the trailing ".*" and "[*]" of a glob, never its
\* first note
stripTrail(notes) ==
    IF Len(notes) > 1 /\ WILDCARD(notes[Len(notes)])
    THEN stripTrail(SubSeq(notes, 1, Len(notes) - 1))
    ELSE notes

\* trailing wildcards removed from a negated glob too
removeTrailingWildcardsNegated(g) == Glob(g.neg, stripTrail(g.notes))

\* utils.removeTrailingWildcards: only a glob that does not start with "!"
removeTrailingWildcards(g) ==
    IF g.neg THEN g ELSE Glob(FALSE, stripTrail(g.notes))

\* Glob._inspect(glob).glob; absGlob is .notes, isNegated is .neg
inspect(g) == removeTrailingWildcards(g)

\* Glob._inspect(glob).absGlob: the glob without its "!", a glob string of
\* its own
absGlob(g) == Glob(FALSE, inspect(g).notes)

\* Glob._inspect(glob).isArrayGlob: absGlob starts with "[" and no quote
isArrayGlob(g) == ARRAY_GLOB_NOTE(g.notes[1])

(***************************************************************************)
(* Coverage.                                                               *)
(***************************************************************************)
\* _coversNote without the rule of the array wildcard
coversNoteNoArrStar(a, b) ==
    IF a = Star THEN ~ARRAY_GLOB_NOTE(b)
    ELSE IF WILDCARD(b) THEN FALSE
    ELSE normalizeNote(a) = normalizeNote(b)

\* _coversNote(a, b), both notes present
coversNote(a, b) ==
    IF a = Star THEN ~ARRAY_GLOB_NOTE(b)
    ELSE IF a = ArrStar THEN ARRAY_GLOB_NOTE(b)
    ELSE IF WILDCARD(b) THEN FALSE
    ELSE normalizeNote(a) = normalizeNote(b)

\* _matchesNote(a, b), both notes present
matchesNote(a, b) == coversNote(a, b) \/ coversNote(b, a)

\* the loop of Glob._covers with a missing note of B passing
notesCoverMissing(notesA, notesB, match) ==
    \A i \in 1..Len(notesA) :
        IF i > Len(notesB) THEN TRUE
        ELSE IF match THEN matchesNote(notesA[i], notesB[i])
        ELSE coversNote(notesA[i], notesB[i])

\* the loop of Glob._covers: every note of A against the note of B at the
\* same place; a missing note of B fails _coversNote and passes _matchesNote
notesCover(notesA, notesB, match) ==
    \A i \in 1..Len(notesA) :
        IF i > Len(notesB) THEN match
        ELSE IF match THEN matchesNote(notesA[i], notesB[i])
        ELSE coversNote(notesA[i], notesB[i])

\* Glob._covers(a, b, match) on inspected globs
covers(a, b, match) ==
    IF ~match /\ a.neg /\ Len(a.notes) > Len(b.notes) THEN FALSE
    ELSE notesCover(a.notes, b.notes, match)

\* Glob#test(notation): the notation is a string, so it is inspected first
test(g, path) == covers(inspect(g), inspect(path), FALSE)

(***************************************************************************)
(* Intersection.                                                           *)
(***************************************************************************)
\* what Glob._intersect returns when there is no intersection (null)
NoGlob == [neg |-> FALSE, notes |-> <<>>]

\* the "!" of the intersection
bang(gA, gB, notesA, notesB, restrictive) ==
    IF restrictive THEN gA.neg \/ gB.neg
    ELSE IF gA.neg /\ gB.neg THEN TRUE
    ELSE \/ Len(notesA) > Len(notesB) /\ gA.neg
         \/ Len(notesB) > Len(notesA) /\ gB.neg

RECURSIVE intersectNotes(_, _, _, _)
\* the loop of Glob._intersect from position i on, acc the notes pushed so
\* far; <<>> when two notes exclude each other
intersectNotes(notesA, notesB, i, acc) ==
    IF i > Len(notesA) /\ i > Len(notesB) THEN acc
    ELSE IF i > Len(notesB) THEN intersectNotes(notesA, notesB, i + 1, Append(acc, notesA[i]))
    ELSE IF i > Len(notesA) THEN intersectNotes(notesA, notesB, i + 1, Append(acc, notesB[i]))
    ELSE LET a == notesA[i]
             b == notesB[i]
         IN  IF a = b THEN intersectNotes(notesA, notesB, i + 1, Append(acc, a))
             ELSE IF WILDCARD(a) THEN intersectNotes(notesA, notesB, i + 1, Append(acc, b))
             ELSE IF WILDCARD(b) THEN intersectNotes(notesA, notesB, i + 1, Append(acc, a))
             ELSE <<>>

\* Glob._intersect(globA, globB, restrictive) on glob strings
intersect(gA, gB, restrictive) ==
    LET notesA == removeTrailingWildcards(gA).notes
        notesB == removeTrailingWildcards(gB).notes
        notesI == intersectNotes(notesA, notesB, 1, <<>>)
    IN  IF notesI = <<>> THEN NoGlob
        ELSE Glob(bang(gA, gB, notesA, notesB, restrictive), notesI)

(***************************************************************************)
(* Ordering.                                                               *)
(***************************************************************************)
last(a) == a.notes[Len(a.notes)]

\* Glob#parent, handed to _covers as a string and so inspected again
parent(a) == inspect(Glob(FALSE, SubSeq(a.notes, 1, Len(a.notes) - 1)))

\* _idxVal: parseInt of the note without its first bracket
idxVal(note) == normalizeNote(note)[2]

\* _compArrIdx with the lower index first
compArrIdxAscending(lastA, lastB) == IF idxVal(lastA) > idxVal(lastB) THEN 1 ELSE -1

\* _compArrIdx
compArrIdx(lastA, lastB) == IF idxVal(lastA) > idxVal(lastB) THEN -1 ELSE 1

\* _compareArrayItemGlobs
compareArrayItemGlobs(a, b) ==
    IF \/ ~a.neg
       \/ ~b.neg
       \/ Len(a.notes) # Len(b.notes)
       \/ ~ARRAY_GLOB_NOTE(last(a))
       \/ ~ARRAY_GLOB_NOTE(last(b))
       \/ last(a) = last(b)
    THEN 0
    ELSE IF last(a) = ArrStar THEN 1
    ELSE IF last(b) = ArrStar THEN -1
    ELSE IF Len(a.notes) > 1
         THEN IF covers(parent(a), parent(b), TRUE)
              THEN compArrIdx(last(a), last(b))
              ELSE 0
    ELSE compArrIdx(last(a), last(b))

\* (a.absGlob.match(re.WILDCARDS) || []).length: the regular expression has
\* no g flag, so a match is the array [match, group]
\* a count that sees no wildcard
wildCountNone(a) == 0

\* (a.absGlob.match(re.WILDCARDS) || []).length: WILDCARDS has no g flag, the
\* match holds the whole match and its one group
wildCount(a) == IF \E i \in 1..Len(a.notes) : WILDCARD(a.notes[i]) THEN 2 ELSE 0

\* Glob.compare(globA, globB)
compare(gA, gB) ==
    IF gA = gB \/ (~gA.neg /\ ~gB.neg /\ Len(gA.notes) = 1 /\ Len(gB.notes) = 1
                    /\ WILDCARD(gA.notes[1]) /\ WILDCARD(gB.notes[1]))
    THEN 0
    ELSE LET a == inspect(gA)
             b == inspect(gB)
         IN  IF Len(a.notes) = Len(b.notes)
             THEN LET aIdxCompare == compareArrayItemGlobs(a, b)
                  IN  IF aIdxCompare # 0 THEN aIdxCompare
                      ELSE IF wildCount(a) = wildCount(b)
                      THEN IF ~a.neg /\ b.neg THEN -1
                           ELSE IF a.neg /\ ~b.neg THEN 1
                           ELSE LET sa == joinChars(a.notes, 1)
                                    sb == joinChars(b.notes, 1)
                                IN  IF strLess(sa, sb, 1) THEN -1
                                    ELSE IF strLess(sb, sa, 1) THEN 1 ELSE 0
                      ELSE IF wildCount(a) > wildCount(b) THEN -1 ELSE 1
             ELSE IF Len(a.notes) < Len(b.notes) THEN -1 ELSE 1

\* _negFirstSort on glob strings
negFirstSort(a, b) ==
    IF a.neg /\ b.neg THEN (IF Len(str(a)) >= Len(str(b)) THEN 1 ELSE -1)
    ELSE IF a.neg THEN -1
    ELSE IF b.neg THEN 1
    ELSE 0

\* _negLastSort on glob strings
negLastSort(a, b) ==
    IF a.neg /\ b.neg THEN (IF Len(str(a)) >= Len(str(b)) THEN 1 ELSE -1)
    ELSE IF a.neg THEN 1
    ELSE IF b.neg THEN -1
    ELSE 0

\* the comparison function handed to Array.prototype.sort
comparefn(by, a, b) ==
    CASE by = "compare"  -> compare(a, b)
      [] by = "negFirst" -> negFirstSort(a, b)
      [] by = "negLast"  -> negLastSort(a, b)

(***************************************************************************)
(* Array.prototype.sort as V8 runs it on an array shorter than a merge     *)
(* run: the leading run is found (and reversed when strictly descending),  *)
(* then the other elements are inserted by binary search.  With a          *)
(* comparison function that is no consistent order the language leaves the *)
(* result to the implementation; this is the one Node produces.            *)
(***************************************************************************)
RECURSIVE runLength(_, _, _, _)
\* CountAndMakeRun: the index of the last element of the run that starts
\* at 1, idx the next element to look at
runLength(arr, by, descending, idx) ==
    IF idx > Len(arr) THEN Len(arr)
    ELSE LET order == comparefn(by, arr[idx], arr[idx - 1])
         IN  IF (descending /\ order >= 0) \/ (~descending /\ order < 0)
             THEN idx - 1
             ELSE runLength(arr, by, descending, idx + 1)

reverse(s) == [i \in 1..Len(s) |-> s[Len(s) + 1 - i]]

RECURSIVE insertionPoint(_, _, _, _, _)
\* the binary search of BinaryInsertionSort, over arr[left .. right - 1]
insertionPoint(arr, by, pivot, left, right) ==
    IF left >= right THEN left
    ELSE LET mid == left + ((right - left) \div 2)
         IN  IF comparefn(by, pivot, arr[mid]) < 0
             THEN insertionPoint(arr, by, pivot, left, mid)
             ELSE insertionPoint(arr, by, pivot, mid + 1, right)

RECURSIVE binaryInsertionSort(_, _, _)
\* BinaryInsertionSort: arr[1 .. start - 1] is sorted, insert the rest
binaryInsertionSort(arr, by, start) ==
    IF start > Len(arr) THEN arr
    ELSE LET pivot == arr[start]
             left  == insertionPoint(arr, by, pivot, 1, start)
             moved == SubSeq(arr, 1, left - 1) \o <<pivot>>
                      \o SubSeq(arr, left, start - 1)
                      \o SubSeq(arr, start + 1, Len(arr))
         IN  binaryInsertionSort(moved, by, start + 1)

\* arr.sort(comparefn)
jsSort(arr, by) ==
    IF Len(arr) < 2 THEN arr
    ELSE LET descending == comparefn(by, arr[2], arr[1]) < 0
             run == runLength(arr, by, descending, 3)
             made == IF descending
                     THEN reverse(SubSeq(arr, 1, run)) \o SubSeq(arr, run + 1, Len(arr))
                     ELSE arr
         IN  binaryInsertionSort(made, by, run + 1)

\* Glob.sort(globList)
sort(globList) == jsSort(globList, "compare")

(***************************************************************************)
(* Normalization: one run of the body of Glob.normalize.                   *)
(***************************************************************************)
\* _isReverseOf
isReverseOf(a, b) == a.neg # b.neg /\ a.notes = b.notes

\* _invert
invert(glob) == Glob(~glob.neg, glob.notes)

\* re.NEGATE_ALL
NEGATE_ALL(glob) == glob.neg /\ Len(glob.notes) = 1 /\ WILDCARD(glob.notes[1])

\* arr.indexOf(x) >= 0
has(arr, x) == \E i \in 1..Len(arr) : arr[i] = x

\* list.indexOf(inter) >= 0 in checkAddIntersection: list holds the objects
\* _inspect returned and inter is a string, so indexOf finds nothing
listHas(list, inter) == FALSE

\* the end of checkAddIntersection, inter the intersection found: the keys
\* of the intersections object, in the order in which they were set
addIntersection(intersections, original, list, inter, restrictive) ==
    IF inter = NoGlob THEN intersections
    ELSE IF listHas(list, inter) THEN intersections
    ELSE IF ~restrictive /\ has(original, invert(inter)) THEN intersections
    ELSE IF has(intersections, inter) THEN intersections
    ELSE Append(intersections, inter)

\* checkAddIntersection(gA, gB)
checkAddIntersection(intersections, original, list, gA, gB, restrictive) ==
    addIntersection(intersections, original, list, intersect(gA, gB, restrictive), restrictive)

\* arr.splice(index, 1)
splice(arr, index) == SubSeq(arr, 1, index - 1) \o SubSeq(arr, index + 1, Len(arr))

\* the flags of one glob a, and what the inner loop may change
flagsOf(list, ignored, intersections) ==
    [list |-> list, ignored |-> ignored, intersections |-> intersections,
     thrown |-> FALSE, duplicate |-> FALSE, hasExactNeg |-> FALSE,
     negCoversPos |-> FALSE, negCoveredByPos |-> FALSE, negCoveredByNeg |-> FALSE,
     posCoversPos |-> FALSE, posCoveredByNeg |-> FALSE, posCoveredByPos |-> FALSE]

\* const coveredByB = coversB ? false : _covers(b, a)
coveredBy(coversB, a, b) == IF coversB THEN FALSE ELSE covers(b, a, FALSE)

RECURSIVE innerEach(_, _, _, _, _, _)

\* the callback of the inner loop from "const coversB" on, for globs a and
\* b that are no duplicates, no exact negation, b not ignored; a branch
\* that does not go on with innerEach is a break (return false)
compareFlags(f, a, b, coversB, coveredByB, indexA, indexB, original, restrictive) ==
    IF a.neg /\ b.neg
    THEN IF coveredByB
         THEN [f EXCEPT !.negCoveredByNeg = TRUE, !.ignored = @ \cup {a}]
         ELSE innerEach(f, a, indexA, indexB - 1, original, restrictive)
    ELSE IF a.neg
    THEN innerEach([f EXCEPT !.negCoversPos = @ \/ coversB,
                             !.negCoveredByPos = @ \/ coveredByB,
                             !.intersections =
                                 IF ~coversB /\ ~coveredByB
                                 THEN checkAddIntersection(@, original, f.list, a, b, restrictive)
                                 ELSE @],
                   a, indexA, indexB - 1, original, restrictive)
    ELSE IF b.neg
    THEN IF coveredByB
         THEN IF restrictive
              THEN [f EXCEPT !.posCoveredByNeg = TRUE, !.ignored = @ \cup {a}]
              ELSE innerEach([f EXCEPT !.posCoveredByNeg = TRUE],
                             a, indexA, indexB - 1, original, restrictive)
         ELSE innerEach([f EXCEPT !.intersections =
                                      IF ~coversB
                                      THEN checkAddIntersection(@, original, f.list, a, b, restrictive)
                                      ELSE @],
                        a, indexA, indexB - 1, original, restrictive)
    ELSE IF coveredByB /\ restrictive
    THEN [f EXCEPT !.posCoversPos = @ \/ coversB, !.posCoveredByPos = TRUE]
    ELSE innerEach([f EXCEPT !.posCoversPos = @ \/ coversB,
                             !.posCoveredByPos = @ \/ coveredByB],
                   a, indexA, indexB - 1, original, restrictive)

\* the callback of the inner loop for the globs a and b
compareGlobs(f, a, b, coversB, indexA, indexB, original, restrictive) ==
    IF isArrayGlob(a) # isArrayGlob(b) THEN [f EXCEPT !.thrown = TRUE]
    ELSE IF a = b
    THEN [f EXCEPT !.list = splice(f.list, indexA), !.duplicate = TRUE]
    ELSE IF ~a.neg /\ isReverseOf(a, b)
    THEN [f EXCEPT !.ignored = @ \cup {a}, !.hasExactNeg = TRUE]
    ELSE IF b \in f.ignored
    THEN innerEach(f, a, indexA, indexB - 1, original, restrictive)
    ELSE compareFlags(f, a, b, coversB, coveredBy(coversB, a, b),
                      indexA, indexB, original, restrictive)

\* utils.eachRight(list, (b, indexB) => ...) for the glob a at indexA, from
\* indexB down
innerEach(f, a, indexA, indexB, original, restrictive) ==
    IF indexB = 0 THEN f
    ELSE IF indexB = indexA THEN innerEach(f, a, indexA, indexB - 1, original, restrictive)
    ELSE compareGlobs(f, a, f.list[indexB], covers(a, f.list[indexB], FALSE),
                      indexA, indexB, original, restrictive)

\* keepNeg without the test that a non-negated glob covers the negated one
keepNegOrphan(f, restrictive) ==
    IF restrictive
    THEN (f.negCoversPos \/ f.negCoveredByPos) /\ ~f.negCoveredByNeg
    ELSE ~f.negCoveredByNeg

\* keepNeg with the loose test on the wrong flag
keepNegCovers(f, restrictive) ==
    IF restrictive
    THEN (f.negCoversPos \/ f.negCoveredByPos) /\ ~f.negCoveredByNeg
    ELSE f.negCoversPos /\ ~f.negCoveredByNeg

\* keepNeg
keepNeg(f, restrictive) ==
    IF restrictive
    THEN (f.negCoversPos \/ f.negCoveredByPos) /\ ~f.negCoveredByNeg
    ELSE f.negCoveredByPos /\ ~f.negCoveredByNeg

\* keepPos
keepPos(f, restrictive) ==
    IF restrictive
    THEN (f.posCoversPos \/ ~f.posCoveredByPos) /\ ~f.posCoveredByNeg
    ELSE f.posCoveredByNeg \/ ~f.posCoveredByPos

\* keep
keep(f, a, restrictive) ==
    /\ ~f.duplicate
    /\ ~f.hasExactNeg
    /\ IF a.neg THEN keepNeg(f, restrictive) ELSE keepPos(f, restrictive)

\* the end of the callback of the outer loop: a is pushed or ignored
pushOrIgnore(o, f, a, kept) ==
    [list |-> f.list,
     ignored |-> IF kept THEN f.ignored ELSE f.ignored \cup {a},
     intersections |-> f.intersections,
     normalized |-> IF kept THEN Append(o.normalized, a) ELSE o.normalized,
     negateAll |-> o.negateAll \/ NEGATE_ALL(a),
     thrown |-> FALSE]

RECURSIVE outerEach(_, _, _, _)

\* the callback of the outer loop for the glob a, f what the inner loop
\* left; a branch that does not go on with outerEach ends the loop
inspectGlob(o, f, a, indexA, original, restrictive) ==
    IF f.thrown THEN [o EXCEPT !.thrown = TRUE]
    ELSE outerEach(pushOrIgnore(o, f, a, keep(f, a, restrictive)),
                   indexA - 1, original, restrictive)

\* utils.eachRight(list, (a, indexA) => ...) from indexA down; o holds
\* list, ignored, intersections, normalized, negateAll and whether the
\* integrity error was thrown
outerEach(o, indexA, original, restrictive) ==
    IF indexA = 0 THEN o
    ELSE IF NEGATE_ALL(o.list[indexA]) /\ restrictive THEN [o EXCEPT !.negateAll = TRUE]
    ELSE inspectGlob(o,
                     innerEach(flagsOf(o.list, o.ignored, o.intersections),
                               o.list[indexA], indexA, Len(o.list), original, restrictive),
                     o.list[indexA], indexA, original, restrictive)

\* the list normalize iterates: the copy of the input, negated globs moved
\* to one end, each glob inspected
sortedList(original, restrictive) ==
    [i \in 1..Len(original) |->
        inspect(jsSort(original, IF restrictive THEN "negFirst" ELSE "negLast")[i])]

\* the end of normalize without the return for a negate-all glob
afterLoopNoNegateAll(o, restrictive) ==
    IF o.thrown THEN [kind |-> "throw", list |-> <<>>]
    ELSE IF Len(o.intersections) > 0
    THEN [kind |-> "call", list |-> o.normalized \o o.intersections]
    ELSE [kind |-> "return", list |-> sort(o.normalized)]

\* what normalize does after the outer loop
afterLoop(o, restrictive) ==
    IF o.thrown THEN [kind |-> "throw", list |-> <<>>]
    ELSE IF restrictive /\ o.negateAll THEN [kind |-> "return", list |-> <<>>]
    ELSE IF Len(o.intersections) > 0
    THEN [kind |-> "call", list |-> o.normalized \o o.intersections]
    ELSE [kind |-> "return", list |-> sort(o.normalized)]

\* normalize from the early return for a single glob on
normalizeList(list, original, restrictive) ==
    IF Len(list) = 1
    THEN [kind |-> "return", list |-> IF list[1].neg THEN <<>> ELSE list]
    ELSE afterLoop(outerEach([list |-> list, ignored |-> {}, intersections |-> <<>>,
                              normalized |-> <<>>, negateAll |-> FALSE, thrown |-> FALSE],
                             Len(list), original, restrictive),
                   restrictive)

\* One run of the body of Glob.normalize(globList, restrictive): it returns
\* a list, throws the integrity error, or calls itself with a new list.
normalizeBody(original, restrictive) ==
    IF Len(original) = 0 THEN [kind |-> "return", list |-> <<>>]
    ELSE normalizeList(sortedList(original, restrictive), original, restrictive)

(***************************************************************************)
(* Glob.normalize as a whole: the runs of its body until one returns or    *)
(* throws.  A run handed a list that an earlier run of the call was handed *)
(* repeats that run for ever: the call does not return ("diverge").        *)
(***************************************************************************)
RECURSIVE normalizeFrom(_, _, _)

\* return Glob.normalize(normalized, restrictive), or the outcome
normalizeNext(out, globList, restrictive, seenLists) ==
    IF out.kind = "call"
    THEN normalizeFrom(out.list, restrictive, seenLists \cup {globList})
    ELSE out

normalizeFrom(globList, restrictive, seenLists) ==
    IF globList \in seenLists THEN [kind |-> "diverge", list |-> <<>>]
    ELSE normalizeNext(normalizeBody(globList, restrictive), globList, restrictive, seenLists)

\* Glob.normalize(globList, restrictive)
normalize(globList, restrictive) == normalizeFrom(globList, restrictive, {})

(***************************************************************************)
(* Union.                                                                  *)
(***************************************************************************)
\* re.WILDCARD.test(a.absGlob)
wildcardOnly(a) == Len(a.notes) = 1 /\ WILDCARD(a.notes[1])

\* the flags of one glob of list A in _compareUnion
unionFlags ==
    [notCovered |-> FALSE, hasExact |-> FALSE, negCoversNeg |-> FALSE,
     posCoversNeg |-> FALSE, posCoversPos |-> FALSE, negCoversPos |-> FALSE,
     intersections |-> <<>>]

\* if (inter && union.indexOf(inter) === -1) intersections.push(inter)
pushIntersection(intersections, inter, union) ==
    IF inter # NoGlob /\ ~has(union, inter) THEN Append(intersections, inter)
    ELSE intersections

\* the callback of the inner loop of _compareUnion after hasExact is set,
\* covered being _covers(b, a)
unionCompare(f, a, b, hasExact, covered, union, restrictive) ==
    IF ~covered
    THEN [f EXCEPT !.hasExact = hasExact,
                   !.notCovered = TRUE,
                   !.intersections =
                       IF a.neg /\ b.neg
                       THEN pushIntersection(@, intersect(a, b, restrictive), union)
                       ELSE @]
    ELSE IF a.neg /\ b.neg
    THEN [f EXCEPT !.hasExact = hasExact, !.notCovered = FALSE, !.negCoversNeg = ~hasExact]
    ELSE IF a.neg
    THEN [f EXCEPT !.hasExact = hasExact, !.notCovered = FALSE, !.posCoversNeg = TRUE]
    ELSE IF ~b.neg
    THEN [f EXCEPT !.hasExact = hasExact, !.notCovered = FALSE, !.posCoversPos = ~hasExact]
    ELSE [f EXCEPT !.hasExact = hasExact, !.notCovered = FALSE, !.negCoversPos = TRUE]

RECURSIVE unionInner(_, _, _, _, _, _, _)
\* utils.eachRight(globsListB, globB => ...) for the glob globA, from
\* indexB down
unionInner(f, globA, a, globsListB, indexB, union, restrictive) ==
    IF indexB = 0 THEN f
    ELSE unionInner(unionCompare(f, a, inspect(globsListB[indexB]),
                                 f.hasExact \/ globA = globsListB[indexB],
                                 covers(inspect(globsListB[indexB]), a, FALSE),
                                 union, restrictive),
                    globA, a, globsListB, indexB - 1, union, restrictive)

\* keep with every negated glob kept
unionKeepNegated(f, a) ==
    IF a.neg THEN TRUE
    ELSE ~f.posCoversPos \/ f.negCoversPos

\* keep with no negated glob kept
unionKeepPositive(f, a) ==
    IF a.neg THEN FALSE
    ELSE ~f.posCoversPos \/ f.negCoversPos

\* keep in _compareUnion
unionKeep(f, a) ==
    IF a.neg THEN ~f.posCoversNeg \/ f.negCoversNeg
    ELSE ~f.posCoversPos \/ f.negCoversPos

\* the end of the callback of the outer loop of _compareUnion: a is pushed,
\* or its intersections are, or nothing
unionPush(union, f, a) ==
    IF f.hasExact \/ unionKeep(f, a) \/ (f.notCovered /\ ~a.neg) THEN Append(union, a)
    ELSE IF a.neg /\ f.posCoversNeg /\ ~f.negCoversNeg /\ Len(f.intersections) > 0
    THEN union \o f.intersections
    ELSE union

RECURSIVE unionOuter(_, _, _, _, _)
\* utils.eachRight(globsListA, globA => ...) from indexA down
unionOuter(globsListA, indexA, globsListB, restrictive, union) ==
    IF indexA = 0 THEN union
    ELSE IF has(union, globsListA[indexA])
    THEN unionOuter(globsListA, indexA - 1, globsListB, restrictive, union)
    ELSE IF wildcardOnly(inspect(globsListA[indexA]))
    THEN unionOuter(globsListA, indexA - 1, globsListB, restrictive,
                    Append(union, inspect(globsListA[indexA])))
    ELSE unionOuter(globsListA, indexA - 1, globsListB, restrictive,
                    unionPush(union,
                              unionInner(unionFlags, globsListA[indexA],
                                         inspect(globsListA[indexA]), globsListB,
                                         Len(globsListB), union, restrictive),
                              inspect(globsListA[indexA])))

\* Glob._compareUnion(globsListA, globsListB, restrictive, union)
compareUnion(globsListA, globsListB, restrictive, union) ==
    unionOuter(globsListA, Len(globsListA), globsListB, restrictive, union)

\* union without its last call of normalize
unionListsRaw(listA, listB, restrictive) ==
    IF listA.kind # "return" THEN listA
    ELSE IF listB.kind # "return" THEN listB
    ELSE IF Len(listA.list) = 0 THEN listB
    ELSE IF Len(listB.list) = 0 THEN listA
    ELSE [kind |-> "return",
          list |-> compareUnion(listB.list, listA.list, restrictive,
                                compareUnion(listA.list, listB.list, restrictive, <<>>))]

\* Glob.union after its two calls of normalize, listA and listB what they
\* left: a call that throws or does not return ends union the same way
unionLists(listA, listB, restrictive) ==
    IF listA.kind # "return" THEN listA
    ELSE IF listB.kind # "return" THEN listB
    ELSE IF Len(listA.list) = 0 THEN listB
    ELSE IF Len(listB.list) = 0 THEN listA
    ELSE normalize(compareUnion(listB.list, listA.list, restrictive,
                                compareUnion(listA.list, listB.list, restrictive, <<>>)),
                   restrictive)

\* Glob.union(globsA, globsB, restrictive)
union(globsA, globsB, restrictive) ==
    unionLists(normalize(globsA, restrictive), normalize(globsB, restrictive), restrictive)

(***************************************************************************)
(* The program: a caller builds a list of glob strings and hands it to     *)
(* Glob.normalize; every run of the body of normalize is one step.  The    *)
(* caller may hand the returned list to normalize once more.               *)
(***************************************************************************)
VARIABLES
    universe,     \* which patterns the caller draws the list from
    input,        \* the list the caller builds
    restrictive,  \* the mode of the call
    pc,           \* "build", "normalize", "returned", "thrown"
    globList,     \* the globList of the run of normalize that comes next
    seen,         \* the globLists of the runs of this call so far
    result,       \* the list normalize returned
    calls,        \* calls of normalize made by the caller so far
    first,        \* what the first call returned
    operands,     \* the lists the caller has ready for Glob.union
    united,       \* what union of the first two operands left
    folded,       \* what the two nestings of union over three operands left
    args,         \* the globs the caller has ready for a static function
    value         \* what the static functions returned for them

normalizeVars == <<globList, seen, result, calls, first>>
unionVars == <<operands, united, folded>>
pureVars == <<args, value>>
vars == <<universe, input, restrictive, pc, normalizeVars, unionVars, pureVars>>

RECURSIVE NoteSeqs(_, _)
\* the note sequences of 1..depth notes over an alphabet
NoteSeqs(alphabet, depth) ==
    IF depth = 0 THEN {}
    ELSE LET shorter == NoteSeqs(alphabet, depth - 1)
         IN  {<<n>> : n \in alphabet} \cup shorter
             \cup {Append(s, n) : s \in {t \in shorter : Len(t) = depth - 1}, n \in alphabet}

\* the glob strings over an alphabet, plain and negated
Globs(alphabet) == {Glob(neg, s) : neg \in BOOLEAN, s \in NoteSeqs(alphabet, MaxDepth)}

\* the object patterns of the documentation's examples: *, and two keys
ObjectNotes == {Star} \cup Keys

\* one key only, for lists one pattern longer
NarrowNotes == {Star, "x"}

\* object roots and array roots side by side
MixedNotes == {Star, "x", ArrStar, "[0]"}

\* array patterns: the whole array and one item, and the negated patterns
\* of what is directly below them
ArrayPool ==
    {Glob(FALSE, <<n>>) : n \in {ArrStar, "[0]"}}
    \cup {Glob(TRUE, <<a, b>>) : a \in {ArrStar, "[0]"}, b \in {ArrStar, "[0]", "[1]", "x"}}

Universes == {"object", "narrow", "mixed", "array"}

\* the glob strings the caller draws from
Pool(u) ==
    CASE u = "object" -> Globs(ObjectNotes)
      [] u = "narrow" -> Globs(NarrowNotes)
      [] u = "mixed" -> Globs(MixedNotes)
      [] u = "array" -> ArrayPool

\* the longest list the caller builds
MaxInput(u) ==
    CASE u = "object" -> MaxLen
      [] u = "narrow" -> MaxLen + 1
      [] u = "mixed" -> MaxLen - 1
      [] u = "array" -> MaxLen + 1

Init ==
    /\ universe \in Universes
    /\ input = <<>>
    /\ restrictive = FALSE
    /\ pc = "build"
    /\ globList = <<>>
    /\ seen = {}
    /\ result = <<>>
    /\ calls = 0
    /\ first = <<>>
    /\ operands = <<>>
    /\ united = <<>>
    /\ folded = <<>>
    /\ args = <<>>
    /\ value = <<>>

\* the caller adds a glob string to the list
Push(g) ==
    /\ pc = "build"
    /\ Len(input) < MaxInput(universe)
    /\ input' = Append(input, g)
    /\ UNCHANGED <<universe, restrictive, pc, normalizeVars, unionVars, pureVars>>

\* the caller calls Glob.normalize(input, r)
Call(r) ==
    /\ pc = "build"
    /\ pc' = "normalize"
    /\ restrictive' = r
    /\ globList' = input
    /\ seen' = {}
    /\ calls' = 1
    /\ UNCHANGED <<universe, input, result, first, unionVars, pureVars>>

\* what a run of the body of Glob.normalize leaves: the list of the next
\* run, or the outcome of the call
Leave(out) ==
    IF out.kind = "call"
    THEN /\ globList' = out.list
         /\ UNCHANGED <<pc, result>>
    ELSE /\ globList' = <<>>
         /\ pc' = IF out.kind = "throw" THEN "thrown" ELSE "returned"
         /\ result' = out.list

\* one run of the body of Glob.normalize
Normalize ==
    /\ pc = "normalize"
    /\ seen' = seen \cup {globList}
    /\ Leave(normalizeBody(globList, restrictive))
    /\ UNCHANGED <<universe, input, restrictive, calls, first, unionVars, pureVars>>

\* the caller hands the returned list to Glob.normalize again
CallAgain ==
    /\ pc = "returned"
    /\ calls = 1
    /\ pc' = "normalize"
    /\ globList' = result
    /\ seen' = {}
    /\ calls' = 2
    /\ first' = result
    /\ UNCHANGED <<universe, input, restrictive, result, unionVars, pureVars>>

Next ==
    \/ \E g \in Pool(universe) : Push(g)
    \/ \E r \in BOOLEAN : Call(r)
    \/ Normalize
    \/ CallAgain

Spec == Init /\ [][Next]_vars

(***************************************************************************)
(* The program of the #union() test: a caller builds two or three lists of *)
(* glob strings, calls Glob.union on the first two, and then unites three  *)
(* in both nestings.                                                       *)
(***************************************************************************)
\* Glob.union of what two earlier calls left
unionOf(outA, outB, r) ==
    IF outA.kind # "return" THEN outA
    ELSE IF outB.kind # "return" THEN outB
    ELSE union(outA.list, outB.list, r)

\* a list as a call returns it
returned(list) == [kind |-> "return", list |-> list]

\* the patterns of the first assertion of the test: *, two negated keys and
\* a third key (id as x, pwd as y, title as z)
PairPool == {Glob(FALSE, <<Star>>), Glob(FALSE, <<"z">>), Glob(TRUE, <<"x">>), Glob(TRUE, <<"y">>)}

\* negated patterns one level down, with * and a key
DeepPool ==
    {Glob(FALSE, <<Star>>), Glob(FALSE, <<"x">>), Glob(TRUE, <<"x">>), Glob(TRUE, <<"y">>),
     Glob(TRUE, <<"x", "y">>), Glob(TRUE, <<Star, "y">>), Glob(FALSE, <<"x", "y">>)}

\* the patterns of the second assertion of the test (image as x, name as y,
\* location as z)
FoldPool == {Glob(FALSE, <<Star>>), Glob(FALSE, <<"x">>), Glob(FALSE, <<"y">>), Glob(TRUE, <<"z">>)}

\* patterns of x and of what is below x
AssocPool ==
    {Glob(FALSE, <<Star>>), Glob(TRUE, <<"x">>), Glob(FALSE, <<Star, "x">>), Glob(FALSE, <<"x", "x">>)}

\* a key with what is below it, and * with the negated key
CommutePool ==
    {Glob(FALSE, <<Star>>), Glob(TRUE, <<"x">>), Glob(FALSE, <<"x">>), Glob(FALSE, <<"x", "x">>)}

UnionUniverses == {"pairs", "deep", "absorb", "fold", "assoc", "commute"}

\* the glob strings the caller of union draws from
UnionPool(u) ==
    CASE u = "pairs" -> PairPool
      [] u = "deep" -> DeepPool
      [] u = "absorb" -> Globs(ObjectNotes)
      [] u = "fold" -> FoldPool
      [] u = "assoc" -> AssocPool
      [] u = "commute" -> CommutePool

\* the longest list the caller of union builds
MaxOperand(u) ==
    CASE u = "pairs" -> MaxLen
      [] u = "deep" -> MaxLen - 1
      [] u = "absorb" -> MaxLen
      [] u = "fold" -> MaxLen - 1
      [] u = "assoc" -> MaxLen - 1
      [] u = "commute" -> MaxLen

\* the lists the caller unites
Operands(u) == IF u \in {"fold", "assoc"} THEN 3 ELSE 2

\* u = union(['*'], u): the first operand is the literal ['*']
InitUnion ==
    /\ universe \in UnionUniverses
    /\ input = <<>>
    /\ restrictive = FALSE
    /\ pc = "build"
    /\ globList = <<>>
    /\ seen = {}
    /\ result = <<>>
    /\ calls = 0
    /\ first = <<>>
    /\ operands = IF universe = "absorb" THEN << <<Glob(FALSE, <<Star>>)>> >> ELSE <<>>
    /\ united = <<>>
    /\ folded = <<>>
    /\ args = <<>>
    /\ value = <<>>

\* the caller adds a glob string to the list
PushGlob(g) ==
    /\ pc = "build"
    /\ Len(input) < MaxOperand(universe)
    /\ input' = Append(input, g)
    /\ UNCHANGED <<universe, restrictive, pc, normalizeVars, unionVars, pureVars>>

\* the list is ready: it is the next argument
Keep ==
    /\ pc = "build"
    /\ operands' = Append(operands, input)
    /\ input' = <<>>
    /\ pc' = IF Len(operands) + 1 = Operands(universe) THEN "unite" ELSE "build"
    /\ UNCHANGED <<universe, restrictive, united, folded, normalizeVars, pureVars>>

\* u = union(globA, globB, r)
Unite(r) ==
    /\ pc = "unite"
    /\ restrictive' = r
    /\ united' = union(operands[1], operands[2], r)
    /\ pc' = IF Operands(universe) = 3 THEN "fold" ELSE "united"
    /\ UNCHANGED <<universe, input, operands, folded, normalizeVars, pureVars>>

\* u = union(u, globC, r), and the other nesting union(globA, union(globB,
\* globC, r), r)
Fold ==
    /\ pc = "fold"
    /\ folded' = [left |-> unionOf(united, returned(operands[3]), restrictive),
                  right |-> unionOf(returned(operands[1]),
                                    union(operands[2], operands[3], restrictive),
                                    restrictive)]
    /\ pc' = "folded"
    /\ UNCHANGED <<universe, input, restrictive, operands, united, normalizeVars, pureVars>>

NextUnion ==
    \/ \E g \in UnionPool(universe) : PushGlob(g)
    \/ Keep
    \/ \E r \in BOOLEAN : Unite(r)
    \/ Fold

SpecUnion == InitUnion /\ [][NextUnion]_vars

(***************************************************************************)
(* The static functions on their own: a caller picks the globs and applies *)
(* one of Glob.covers, Glob#test, Glob._intersect, Glob.compare,           *)
(* Glob.sort, Glob.hasMagic and Glob._inspect to them.                     *)
(***************************************************************************)
\* the concrete notations a glob is tested on
PathNotes == Keys \cup {"z"} \cup {"[0]", "[1]"}
Paths == {Glob(FALSE, s) : s \in NoteSeqs(PathNotes, MaxDepth)}

\* the globs of the example of _compareArrayItemGlobs: items of one array
SlotPool ==
    {Glob(TRUE, <<"[0]", "[1]">>), Glob(TRUE, <<"[0]", ArrStar>>),
     Glob(TRUE, <<"[0]", "[3]">>), Glob(TRUE, <<ArrStar, "[2]">>)}

\* array patterns and object patterns to compare
ComparePool == ArrayPool \cup Globs(NarrowNotes)

\* valid notes and one that is no note
MagicNotes == MixedNotes \cup {"1x"}

\* patterns one note deeper, as '!x.*.*' and '!x.*'
DeeperPool == {Glob(neg, t) : neg \in BOOLEAN, t \in NoteSeqs(NarrowNotes, MaxDepth + 1)}

\* patterns that end in one or two wildcards of either kind, or hold nothing
\* else
InspectPool == {Glob(neg, t) : neg \in BOOLEAN, t \in NoteSeqs({Star, "x", ArrStar}, MaxDepth + 1)}

PureUniverses == {"covers", "deeper", "test", "intersect", "compare", "sort", "magic", "inspect"}

\* the globs the k-th argument is drawn from
PurePool(u, k) ==
    CASE u = "covers" -> Globs(MixedNotes)
      [] u = "deeper" -> DeeperPool
      [] u = "test" -> IF k = 1 THEN Globs(MixedNotes) ELSE Paths
      [] u = "intersect" -> Globs(ObjectNotes \cup {ArrStar, "[0]"})
      [] u = "compare" -> ComparePool
      [] u = "sort" -> SlotPool
      [] u = "magic" -> Globs(MagicNotes)
      [] u = "inspect" -> InspectPool

\* the number of arguments: three globs show a chain of covers or compare,
\* and sort takes the four globs of the example
Arity(u) ==
    CASE u = "covers" -> MaxLen
      [] u = "deeper" -> MaxLen
      [] u = "test" -> MaxLen - 1
      [] u = "intersect" -> MaxLen - 1
      [] u = "compare" -> MaxLen
      [] u = "sort" -> MaxLen + 1
      [] u = "magic" -> MaxLen - 2
      [] u = "inspect" -> MaxLen - 2

InitPure ==
    /\ universe \in PureUniverses
    /\ input = <<>>
    /\ restrictive = FALSE
    /\ pc = "pick"
    /\ globList = <<>>
    /\ seen = {}
    /\ result = <<>>
    /\ calls = 0
    /\ first = <<>>
    /\ operands = <<>>
    /\ united = <<>>
    /\ folded = <<>>
    /\ args = <<>>
    /\ value = <<>>

\* the caller picks the next argument
Pick(g) ==
    /\ pc = "pick"
    /\ Len(args) < Arity(universe)
    /\ args' = Append(args, g)
    /\ UNCHANGED <<universe, input, restrictive, pc, value, normalizeVars, unionVars>>

\* the function returned
Applied(v) ==
    /\ pc' = "applied"
    /\ value' = v
    /\ UNCHANGED <<universe, input, args, normalizeVars, unionVars>>

\* Glob.create(a).covers(b) for every two of the three globs
Covers ==
    /\ pc = "pick"
    /\ universe \in {"covers", "deeper"}
    /\ Len(args) = Arity(universe)
    /\ UNCHANGED restrictive
    /\ Applied([i \in 1..3 |-> [j \in 1..3 |->
                    covers(inspect(args[i]), inspect(args[j]), FALSE)]])

\* glob.test(notation) for the glob and for the glob with its "!" added or
\* removed
Test ==
    /\ pc = "pick"
    /\ universe = "test"
    /\ Len(args) = Arity(universe)
    /\ UNCHANGED restrictive
    /\ Applied(<<test(args[1], args[2]), test(invert(args[1]), args[2])>>)

\* Glob._intersect(globA, globB, r)
Intersect(r) ==
    /\ pc = "pick"
    /\ universe = "intersect"
    /\ Len(args) = Arity(universe)
    /\ restrictive' = r
    /\ Applied(intersect(args[1], args[2], r))

\* Glob.compare(a, b) for every two of the three globs
Compare ==
    /\ pc = "pick"
    /\ universe = "compare"
    /\ Len(args) = Arity(universe)
    /\ UNCHANGED restrictive
    /\ Applied([i \in 1..3 |-> [j \in 1..3 |-> compare(args[i], args[j])]])

\* Glob.sort(globList)
Sort ==
    /\ pc = "pick"
    /\ universe = "sort"
    /\ UNCHANGED restrictive
    /\ Applied(sort(args))

\* Glob.hasMagic(glob)
HasMagic ==
    /\ pc = "pick"
    /\ universe = "magic"
    /\ Len(args) = Arity(universe)
    /\ UNCHANGED restrictive
    /\ Applied(hasMagic(args[1]))

\* Glob._inspect(glob)
Inspect ==
    /\ pc = "pick"
    /\ universe = "inspect"
    /\ Len(args) = Arity(universe)
    /\ UNCHANGED restrictive
    /\ Applied([glob |-> inspect(args[1]),
                absGlob |-> absGlob(args[1]),
                isNegated |-> args[1].neg,
                isArrayGlob |-> isArrayGlob(inspect(args[1]))])

NextPure ==
    \/ \E g \in PurePool(universe, Len(args) + 1) : Pick(g)
    \/ Covers
    \/ Test
    \/ \E r \in BOOLEAN : Intersect(r)
    \/ Compare
    \/ Sort
    \/ HasMagic
    \/ Inspect

SpecPure == InitPure /\ [][NextPure]_vars

(***************************************************************************)
(* What the properties below speak about.                                  *)
(***************************************************************************)
Range(s) == {s[i] : i \in 1..Len(s)}

\* the first call of normalize returned
Returned == pc = "returned" /\ calls = 1

\* a list selects a path iff, the list taken in the order of Glob.sort, the
\* last glob whose test accepts the path is not negated
Selects(list, p) ==
    LET s == sort(list)
        hits == {i \in 1..Len(s) : test(s[i], p)}
    IN  /\ hits # {}
        /\ ~s[CHOOSE i \in hits : \A j \in hits : j <= i].neg

\* all globs of the list are array globs, or none is
ConsistentRoots(list) ==
    \A i, j \in 1..Len(list) :
        isArrayGlob(inspect(list[i])) = isArrayGlob(inspect(list[j]))

\* the inspected globs of the list, by sign
Positives(list) == {inspect(g) : g \in {h \in Range(list) : ~h.neg}}
Negatives(list) == {inspect(g) : g \in {h \in Range(list) : h.neg}}

\* a negated glob that neither covers nor is covered by a non-negated glob
\* of the list
Orphan(n, list) ==
    \A p \in Positives(list) : ~covers(n, p, FALSE) /\ ~covers(p, n, FALSE)

\* the globs of the documentation's examples, car as x and model as y
G(notes) == Glob(FALSE, notes)
N(notes) == Glob(TRUE, notes)

\* C1: in loose mode, a list with one root style and the list normalize
\* returns for it select the same concrete paths.
C1_LooseKeepsSelection ==
    (Returned /\ ~restrictive /\ ConsistentRoots(input))
        => \A p \in Paths : Selects(input, p) = Selects(result, p)

\* C2: normalize is idempotent in both modes: normalizing the list that
\* normalize returned gives a list of exactly the same globs.
C2_Idempotent ==
    (pc = "returned" /\ calls = 2) => Range(result) = Range(first)

\* C3: normalize always terminates: no run of its body is handed a list
\* that an earlier run of the same call was handed (the body is a function
\* of that list and the mode, so a repeated list repeats forever).
C3_NoPassRepeats ==
    ~(pc = "normalize" /\ globList \in seen)

\* C4: a list of two or more globs that disagree on the root style (array
\* or object) is never answered with a list, in either mode.
C4_MixedRootsThrow ==
    (calls >= 1 /\ Len(input) >= 2 /\ ~ConsistentRoots(input)) => pc # "returned"

\* C5: negation wins on exact ties: a non-negated glob whose canonical form
\* the list also holds negated is not in the output (both modes), and
\* normalize(['*', 'x', '!x']) is ['*', '!x'].
C5_NegationWinsTies ==
    Returned =>
        /\ \A p \in Positives(input) : invert(p) \in Negatives(input) => ~has(result, p)
        /\ input = <<G(<<Star>>), G(<<"x">>), N(<<"x">>)>>
               => result = <<G(<<Star>>), N(<<"x">>)>>

\* C6: a non-negated glob p covered by a non-negated glob of another
\* canonical form, and covered by no negated glob of the list, is not in
\* the output (both modes, any order), and normalize(['x.*', 'x.y']) is ['x'].
C6_RedundantPositiveDropped ==
    Returned =>
        /\ \A p, q \in Positives(input) :
               (/\ p # q
                /\ covers(q, p, FALSE)
                /\ \A n \in Negatives(input) : ~covers(n, p, FALSE))
               => ~has(result, p)
        /\ input = <<G(<<"x", Star>>), G(<<"x", "y">>)>> => result = <<G(<<"x">>)>>

\* C7 as stated: in loose mode an orphan negated glob is not in the output
\* and each of its intersections with a non-negated glob of the list is,
\* and normalize(['x.*', '!*.y']) is ['x', '!x.y'].
C7_OrphanReplaced ==
    (Returned /\ ~restrictive) =>
        /\ \A n \in Negatives(input) :
               Orphan(n, input) =>
                   /\ ~has(result, n)
                   /\ \A p \in Positives(input) :
                          intersect(n, p, FALSE) # NoGlob => has(result, intersect(n, p, FALSE))
        /\ input = <<G(<<"x", Star>>), N(<<Star, "y">>)>>
               => result = <<G(<<"x">>), N(<<"x", "y">>)>>

\* C7 amended: in loose mode an orphan negated glob is not in the output;
\* its intersections are candidates only and may be dropped in their turn:
\* normalize(['x.*', '!*.y']) is ['x', '!x.y'], normalize(['*.x', '!x'])
\* is ['*.x'].
C7_OrphanDropped ==
    (Returned /\ ~restrictive) =>
        /\ \A n \in Negatives(input) : Orphan(n, input) => ~has(result, n)
        /\ input = <<G(<<"x", Star>>), N(<<Star, "y">>)>>
               => result = <<G(<<"x">>), N(<<"x", "y">>)>>
        /\ input = <<G(<<Star, "x">>), N(<<"x">>)>> => result = <<G(<<Star, "x">>)>>

\* C7's case: normalize(['x.*', '!*.y']) has returned in loose mode, the
\* orphan '!*.y' replaced by its intersection with 'x'
C7_Witness ==
    /\ Returned /\ ~restrictive
    /\ input = <<G(<<"x", Star>>), N(<<Star, "y">>)>>
    /\ Orphan(N(<<Star, "y">>), input)
    /\ has(result, intersect(N(<<Star, "y">>), G(<<"x">>), FALSE))

\* C8: in restrictive mode no non-negated glob of the output is covered by
\* a negated glob of the input; in loose mode a non-negated glob that a
\* negated glob of the input covers (its exact negation, C5's case, apart)
\* is in the output; normalize(['*', 'x.y', '!x.*']) is ['*', '!x.*', 'x.y']
\* in loose mode and ['*', '!x.*'] in restrictive mode.
C8_ModesDiffer ==
    Returned =>
        /\ restrictive =>
               \A i \in 1..Len(result) :
                   ~result[i].neg => \A n \in Negatives(input) : ~covers(n, result[i], FALSE)
        /\ ~restrictive =>
               \A p \in Positives(input) :
                   (/\ invert(p) \notin Negatives(input)
                    /\ \E n \in Negatives(input) : covers(n, p, FALSE))
                   => has(result, p)
        /\ input = <<G(<<Star>>), G(<<"x", "y">>), N(<<"x", Star>>)>>
               => result = IF restrictive
                           THEN <<G(<<Star>>), N(<<"x", Star>>)>>
                           ELSE <<G(<<Star>>), N(<<"x", Star>>), G(<<"x", "y">>)>>

\* a negated glob n of the list that no negated glob of the list written
\* otherwise covers
TopNegative(n, list) ==
    \A m \in Range(list) : (m.neg /\ inspect(m) # n) => ~covers(inspect(m), n, FALSE)

\* C9 as stated: in loose mode a negated glob n that some non-negated glob
\* of the list covers and no other negated glob covers is in the output.
C9_CoveredNegativeKept ==
    (Returned /\ ~restrictive) =>
        \A n \in Negatives(input) :
            (/\ \E p \in Positives(input) : covers(p, n, FALSE)
             /\ TopNegative(n, input))
            => has(result, n)

\* C9 amended: the non-negated glob that covers n has another canonical
\* form than n (it is not the exact tie of C5); normalize(['*', 'x', '!x.y'])
\* holds '!x.y'.
C9_NegativeUnderBroaderKept ==
    (Returned /\ ~restrictive) =>
        /\ \A n \in Negatives(input) :
               (/\ \E p \in Positives(input) : p # invert(n) /\ covers(p, n, FALSE)
                /\ TopNegative(n, input))
               => has(result, n)
        /\ input = <<G(<<Star>>), G(<<"x">>), N(<<"x", "y">>)>> => has(result, N(<<"x", "y">>))

\* C9's case: normalize(['*', 'x', '!x.y']) has returned in loose mode and
\* kept '!x.y'
C9_Witness ==
    /\ Returned /\ ~restrictive
    /\ input = <<G(<<Star>>), G(<<"x">>), N(<<"x", "y">>)>>
    /\ TopNegative(N(<<"x", "y">>), input)
    /\ has(result, N(<<"x", "y">>))

\* C10: a list normalize returns holds no glob twice and is in the order
\* of compare: compare(out[i], out[j]) <= 0 for i < j.
C10_OutputSorted ==
    pc = "returned" =>
        \A i, j \in 1..Len(result) :
            i < j => result[i] # result[j] /\ compare(result[i], result[j]) <= 0


(***************************************************************************)
(* What the properties of union speak about.                               *)
(***************************************************************************)
\* union of the first two operands was called
United == pc \in {"united", "fold", "folded"}

\* a normalized list: normalize returns it as it is
Normalized(list, r) == normalize(list, r) = returned(list)

\* the negated globs of listA that are in listB too
SharedNegations(listA, listB) == {n \in Range(listA) : n.neg /\ n \in Range(listB)}

\* the negated globs of listA alone that a non-negated glob of listB covers
\* while no negated glob of listB intersects them
ReIncluded(listA, listB, r) ==
    {n \in Range(listA) :
        /\ n.neg
        /\ n \notin Range(listB)
        /\ \E p \in Range(listB) : ~p.neg /\ covers(inspect(p), inspect(n), FALSE)
        /\ \A m \in Range(listB) : m.neg => intersect(inspect(n), inspect(m), r) = NoGlob}

\* the two halves of C11 for the lists the two calls of normalize in union
\* left, when both are normalized
NegationsUnited(outA, outB, u, r) ==
    (/\ outA.kind = "return" /\ outB.kind = "return" /\ u.kind = "return"
     /\ Normalized(outA.list, r) /\ Normalized(outB.list, r))
        => /\ SharedNegations(outA.list, outB.list) \subseteq Range(u.list)
           /\ ReIncluded(outA.list, outB.list, r) \cap Range(u.list) = {}
           /\ ReIncluded(outB.list, outA.list, r) \cap Range(u.list) = {}

\* the operands of the first assertion of the test, id as x, pwd as y and
\* title as z
TestPair ==
    << <<G(<<Star>>), N(<<"x">>), N(<<"y">>)>>, <<G(<<Star>>), N(<<"y">>), G(<<"z">>)>> >>

\* C11: for normalized lists A and B, union keeps a negated pattern that is
\* in both, even when a non-negated pattern of the other list covers it, and
\* drops a negated pattern of one list alone that a non-negated pattern of
\* the other list covers while no negated pattern of the other list
\* intersects it; union(['*','!id','!pwd'], ['*','!pwd','title']) is
\* ['*','!pwd'].
C11_SharedNegationKept ==
    United =>
        /\ NegationsUnited(normalize(operands[1], restrictive),
                           normalize(operands[2], restrictive), united, restrictive)
        /\ (operands = TestPair /\ ~restrictive)
               => united = returned(<<G(<<Star>>), N(<<"y">>)>>)

\* the test's pair was united: !pwd of both lists is kept, !id of the first
\* alone is dropped
C11_Witness ==
    /\ pc = "united"
    /\ operands = TestPair
    /\ N(<<"y">>) \in SharedNegations(normalize(operands[1], restrictive).list,
                                     normalize(operands[2], restrictive).list)
    /\ N(<<"x">>) \in ReIncluded(normalize(operands[1], restrictive).list,
                                normalize(operands[2], restrictive).list, restrictive)
    /\ united = returned(<<G(<<Star>>), N(<<"y">>)>>)

\* the operands of the second assertion of the test, image as x, name as y
\* and location as z
TestFold ==
    << <<G(<<"x">>), G(<<"y">>)>>, <<G(<<"y">>), N(<<"z">>)>>, <<G(<<Star>>), N(<<"z">>)>> >>

C13_StarAbsorbs ==
    (United /\ ~restrictive /\ operands[1] = <<G(<<Star>>)>>)
        => united = returned(<<G(<<Star>>)>>)

\* the three operands are normalized lists
NormalizedOperands ==
    \A i \in 1..3 : Normalized(operands[i], restrictive)

\* C14: union is associative on normalized lists of one root style: in one
\* mode, union(union(A, B), C) and union(A, union(B, C)) hold exactly the
\* same patterns.
C14_Associative ==
    (/\ pc = "folded"
     /\ NormalizedOperands
     /\ folded.left.kind = "return"
     /\ folded.right.kind = "return")
        => Range(folded.left.list) = Range(folded.right.list)

\* C15 as stated: for A = ['image','name'], B = ['name','!location'] and
\* C = ['*','!location'], union(union(A, B), C) and union(A, union(B, C))
\* are both ['*'].
C15_BothNestingsStar ==
    (pc = "folded" /\ operands = TestFold /\ ~restrictive)
        => /\ folded.left = returned(<<G(<<Star>>)>>)
           /\ folded.right = returned(<<G(<<Star>>)>>)

\* C15 amended: for A = ['image','name'], B = ['name','!location'] and
\* C = ['*','!location'], union(union(A, B), C) and union(A, union(B, C))
\* are both ['*','!location'].
C15_BothNestingsKeepNegation ==
    (pc = "folded" /\ operands = TestFold /\ ~restrictive)
        => /\ folded.left = returned(<<G(<<Star>>), N(<<"z">>)>>)
           /\ folded.right = folded.left

\* the test's three lists were united in both nestings, and both returned
C15_Witness ==
    /\ pc = "folded"
    /\ operands = TestFold
    /\ ~restrictive
    /\ folded.left.kind = "return"
    /\ folded.right.kind = "return"


(***************************************************************************)
(* What the properties of the static functions speak about.                *)
(***************************************************************************)
\* the function of the universe was applied to the arguments
AppliedTo(u) == pc = "applied" /\ universe = u

\* C16: covers is reflexive for every valid pattern, negated or not, and
\* transitive on non-negated patterns: if A covers B and B covers C then A
\* covers C.
C16_CoversReflexiveTransitive ==
    AppliedTo("covers") =>
        /\ \A i \in 1..3 : value[i][i]
        /\ (/\ \A i \in 1..3 : ~args[i].neg
            /\ value[1][2]
            /\ value[2][3]) => value[1][3]

\* a chain of three different non-negated patterns, each covering itself
C16_Witness ==
    /\ AppliedTo("covers")
    /\ \A i \in 1..3 : ~args[i].neg /\ value[i][i]
    /\ inspect(args[1]) # inspect(args[2])
    /\ inspect(args[2]) # inspect(args[3])
    /\ value[1][2]
    /\ value[2][3]
    /\ value[1][3]

\* the notes _intersect counts: Glob.split(glob, true)
SplitNotes(g) == removeTrailingWildcards(g).notes

\* the negated one of the two globs is the one with fewer notes
ShorterNegated(gA, gB) ==
    \/ gA.neg /\ Len(SplitNotes(gA)) < Len(SplitNotes(gB))
    \/ gB.neg /\ Len(SplitNotes(gB)) < Len(SplitNotes(gA))

\* C17: in loose mode the intersection is negated when both patterns are
\* negated; when exactly one is negated, it is negated only if the negated
\* pattern is the shorter one, and non-negated otherwise;
\* intersect('x.*', '!*.y') is 'x.y' in loose mode and '!x.y' in
\* restrictive mode.
C17_LooseNegation ==
    (AppliedTo("intersect") /\ value # NoGlob) =>
        /\ (~restrictive /\ args[1].neg /\ args[2].neg) => value.neg
        /\ (~restrictive /\ args[1].neg # args[2].neg /\ value.neg)
               => ShorterNegated(args[1], args[2])
        /\ args = <<G(<<"x", Star>>), N(<<Star, "y">>)>>
               => value = IF restrictive THEN N(<<"x", "y">>) ELSE G(<<"x", "y">>)

\* C18: test ignores negation: for every pattern g without "!" and every
\* concrete path, test of the pattern "!" + g gives the same answer as test
\* of the pattern g.
C18_TestIgnoresNegation ==
    (AppliedTo("test") /\ ~args[1].neg) => value[1] = value[2]

\* compare answers -1, 0 or 1, and the opposite for the opposite order
CompareAntisymmetric ==
    \A i, j \in 1..3 : value[i][j] \in {-1, 0, 1} /\ value[i][j] = -value[j][i]

\* a not after b and b not after c put a not after c
CompareTransitive ==
    (value[1][2] <= 0 /\ value[2][3] <= 0) => value[1][3] <= 0

\* C19: compare is a total order with results in {-1, 0, 1}: it is
\* antisymmetric (compare(a, b) = -compare(b, a)) and transitive
\* (compare(a, b) <= 0 and compare(b, c) <= 0 imply compare(a, c) <= 0),
\* negated patterns whose last note is an array index included.
C19_CompareTotalOrder ==
    AppliedTo("compare") => CompareAntisymmetric /\ CompareTransitive

\* two negated patterns of equal depth that end in different array notes
\* and whose parents match: slots of one array
Siblings(a, b) ==
    /\ a.neg /\ b.neg
    /\ Len(a.notes) = Len(b.notes)
    /\ ARRAY_GLOB_NOTE(last(a)) /\ ARRAY_GLOB_NOTE(last(b))
    /\ last(a) # last(b)
    /\ Len(a.notes) > 1 => covers(parent(a), parent(b), TRUE)

\* the slot a is to be removed before the slot b: b ends in [*], or a has
\* the higher index
RemovedFirst(a, b) ==
    /\ last(a) # ArrStar
    /\ last(b) # ArrStar => idxVal(last(a)) > idxVal(last(b))

\* the list of the example of _compareArrayItemGlobs, and its removal order
SlotList ==
    <<N(<<"[0]", "[1]">>), N(<<"[0]", ArrStar>>), N(<<"[0]", "[3]">>), N(<<ArrStar, "[2]">>)>>
SlotOrder ==
    <<N(<<"[0]", "[3]">>), N(<<ArrStar, "[2]">>), N(<<"[0]", "[1]">>), N(<<"[0]", ArrStar>>)>>

\* C20: of two negated patterns of equal depth that end in different array
\* notes and have matching parents, compare puts the one with the higher
\* index first and one ending in [*] after every indexed sibling;
\* consequently sort(['![0][1]','![0][*]','![0][3]','![*][2]']) is
\* ['![0][3]','![*][2]','![0][1]','![0][*]'].
C20_SlotRemovalOrder ==
    /\ AppliedTo("compare") =>
           \A i, j \in 1..3 :
               Siblings(args[i], args[j]) =>
                   value[i][j] = IF RemovedFirst(args[i], args[j]) THEN -1 ELSE 1
    /\ (AppliedTo("sort") /\ args = SlotList) => value = SlotOrder

\* the list of the example was sorted
C20_Witness ==
    /\ AppliedTo("sort")
    /\ args = SlotList
    /\ value = SlotOrder
    /\ \A i, j \in 1..4 : i < j => Siblings(value[i], value[j])

\* the glob has a wildcard note before its last note
InnerWildcard(g) == \E i \in 1..(Len(g.notes) - 1) : WILDCARD(g.notes[i])

\* the glob has a wildcard note
AnyWildcard(g) == \E i \in 1..Len(g.notes) : WILDCARD(g.notes[i])

\* C21 as stated: hasMagic(raw) is true exactly when raw is a valid pattern
\* and is negated or has a wildcard note that is not its final note; a
\* valid non-negated pattern whose only wildcard is its last note has no
\* magic.
C21_MagicInnerWildcard ==
    AppliedTo("magic") =>
        value = (isValid(args[1]) /\ (args[1].neg \/ InnerWildcard(args[1])))

\* C21 amended: hasMagic(raw) is true exactly when raw is a valid pattern
\* and is negated or has a wildcard note, the final note included.
C21_MagicAnyWildcard ==
    AppliedTo("magic") =>
        value = (isValid(args[1]) /\ (args[1].neg \/ AnyWildcard(args[1])))

\* a valid non-negated pattern whose only wildcard is its last note has
\* magic
C21_Witness ==
    /\ AppliedTo("magic")
    /\ isValid(args[1])
    /\ ~args[1].neg
    /\ ~InnerWildcard(args[1])
    /\ WILDCARD(last(args[1]))
    /\ Len(args[1].notes) = MaxDepth
    /\ value


(***************************************************************************)
(* Further properties of normalize.                                        *)
(***************************************************************************)
\* the list holds '!*' or '![*]'
HasNegateAll(list) == \E i \in 1..Len(list) : NEGATE_ALL(list[i])

\* C22: in restrictive mode a negate-all glob short-circuits normalize: for
\* every valid list of one root style that holds '!*' or '![*]', the first
\* run of normalize(list, true) returns the empty list, whatever else the
\* list holds and in whatever order.
C22_NegateAllEmpties ==
    (calls = 1 /\ restrictive /\ ConsistentRoots(input) /\ HasNegateAll(input))
        => \/ pc = "normalize" /\ seen = {}
           \/ pc = "returned" /\ result = <<>>

\* a list of MaxLen globs with a non-negated glob first and a negate-all
\* glob after it was answered with the empty list in restrictive mode
C22_Witness ==
    /\ Returned
    /\ restrictive
    /\ Len(input) = MaxLen
    /\ ConsistentRoots(input)
    /\ ~input[1].neg
    /\ ~NEGATE_ALL(input[MaxLen])
    /\ HasNegateAll(input)
    /\ result = <<>>


(***************************************************************************)
(* Further properties of the static functions.                             *)
(***************************************************************************)
\* covers was applied to every two of the three globs
CoversApplied == pc = "applied" /\ universe \in {"covers", "deeper"}

\* the number of notes of a pattern
Depth(g) == Len(inspect(g).notes)

\* C23: a deeper pattern never covers a shallower one: for all valid
\* patterns A and B, negated or not, covers(A, B) implies that A has at most
\* as many notes as B; '!x.*.*' does not cover '!x.*'.
C23_DeeperNeverCovers ==
    CoversApplied =>
        \A i, j \in 1..3 :
            /\ value[i][j] => Depth(args[i]) <= Depth(args[j])
            /\ (args[i] = N(<<"x", Star, Star>>) /\ args[j] = N(<<"x", Star>>))
                   => ~value[i][j]

\* covers was asked about '!x.*.*' and '!x.*' in both directions: the
\* shallower covers the deeper
C23_Witness ==
    /\ CoversApplied
    /\ args[1] = N(<<"x", Star, Star>>)
    /\ args[2] = N(<<"x", Star>>)
    /\ ~value[1][2]
    /\ value[2][1]

\* at some position both patterns have a note, the notes differ and
\* neither is a wildcard
Clash(notesA, notesB) ==
    \E i \in 1..Len(notesA) :
        /\ i <= Len(notesB)
        /\ notesA[i] # notesB[i]
        /\ ~WILDCARD(notesA[i])
        /\ ~WILDCARD(notesB[i])

\* C24: intersect yields a common specialization or nothing:
\* intersect(A, B) is null exactly when at some position A and B both have
\* a note, the notes differ and neither is a wildcard; whenever the result
\* is not null, both A and B cover it (negation ignored), also when a *
\* meets an array note or [*] at the same position.
C24_CommonSpecialization ==
    AppliedTo("intersect") =>
        /\ value = NoGlob <=> Clash(SplitNotes(args[1]), SplitNotes(args[2]))
        /\ value # NoGlob =>
               /\ notesCover(SplitNotes(args[1]), value.notes, FALSE)
               /\ notesCover(SplitNotes(args[2]), value.notes, FALSE)

\* the number of wildcard notes of a pattern
Wilds(g) == Cardinality({i \in 1..Len(inspect(g).notes) : WILDCARD(inspect(g).notes[i])})

\* two patterns of equal depth that the array-slot rule leaves alone
SlotRuleSilent(a, b) ==
    /\ Depth(a) = Depth(b)
    /\ compareArrayItemGlobs(inspect(a), inspect(b)) = 0

Trimmed(notes, least) ==
    LET kept == {i \in 1..Len(notes) : ~WILDCARD(notes[i])} \cup {least}
    IN  SubSeq(notes, 1, CHOOSE i \in kept : \A j \in kept : j <= i)

\* the canonical form of a negated pattern is its string without the "!"
NegatedKept == args[1].neg => str(value.absGlob) = Tail(str(args[1]))

\* C26 (as stated): for a non-negated pattern the canonical form is the raw
\* string with trailing * and [*] notes removed until the last note is not a
\* wildcard; for a negated pattern it is the raw string without the leading
\* '!' and with every trailing wildcard kept; canonicalizing a canonical
\* form changes nothing.
C26_CanonicalForm ==
    AppliedTo("inspect") =>
        /\ ~args[1].neg => str(value.absGlob) = joinChars(Trimmed(args[1].notes, 0), 1)
        /\ NegatedKept
        /\ absGlob(value.absGlob) = value.absGlob

\* C26 (amended): for a non-negated pattern the canonical form is the raw
\* string with trailing * and [*] notes removed until the last note is not a
\* wildcard or only the first note is left; for a negated pattern it is the
\* raw string without the leading '!' and with every trailing wildcard
\* kept; canonicalizing the canonical form of a non-negated pattern changes
\* nothing.
C26_CanonicalFormFirstKept ==
    AppliedTo("inspect") =>
        /\ ~args[1].neg => str(value.absGlob) = joinChars(Trimmed(args[1].notes, 1), 1)
        /\ NegatedKept
        /\ ~args[1].neg => absGlob(value.absGlob) = value.absGlob

\* 'x.*[*]' was canonicalized to 'x'
C26_Witness ==
    /\ AppliedTo("inspect")
    /\ args[1] = Glob(FALSE, <<"x", Star, ArrStar>>)
    /\ value.absGlob = Glob(FALSE, <<"x">>)
    /\ str(value.absGlob) = <<120>>

(***************************************************************************)
(* Properties of the list normalize returns.                               *)
(***************************************************************************)
\* each negated glob of the list is covered by a non-negated glob of it
NegationsCovered(list) ==
    \A i \in 1..Len(list) :
        list[i].neg => \E j \in 1..Len(list) :
                           ~list[j].neg /\ covers(inspect(list[j]), inspect(list[i]), FALSE)

\* C27: every negation in a normalized list has a positive above it: in
\* every list normalize returns (either mode) each negated pattern is
\* covered by some non-negated pattern of the same list; normalize never
\* returns a list of negated patterns only, and a list of negated patterns
\* only normalizes to the empty list.
C27_NegationsUnderPositive ==
    Returned =>
        /\ NegationsCovered(result)
        /\ Positives(input) = {} => result = <<>>

\* the lists that hold the globs of the list in another order
Reorderings(list) ==
    {[i \in 1..Len(list) |-> list[f[i]]] :
        f \in {h \in [1..Len(list) -> 1..Len(list)] :
                  \A i, j \in 1..Len(list) : h[i] = h[j] => i = j}}

\* C28: normalize does not depend on the order of its input: for every
\* valid pattern list L, every permutation L' of L and each mode,
\* normalize(L') equals normalize(L).
C28_OrderIndependent ==
    Returned =>
        \A other \in Reorderings(input) :
            normalize(other, restrictive) = returned(result)

(***************************************************************************)
(* Further properties of union.                                            *)
(***************************************************************************)
\* the normal form of the list is the empty list
NormalizesToEmpty(list, r) == normalize(list, r) = returned(<<>>)

\* C29: union of a list with itself is its normal form: for every valid
\* pattern list L and each mode, union(L, L) equals normalize(L); and union
\* with a list whose normal form is empty returns the normal form of the
\* other list.
C29_SelfUnion ==
    United =>
        /\ operands[1] = operands[2] => united = normalize(operands[1], restrictive)
        /\ NormalizesToEmpty(operands[2], restrictive)
               => united = normalize(operands[1], restrictive)
        /\ NormalizesToEmpty(operands[1], restrictive)
               => united = normalize(operands[2], restrictive)

\* C30: union is commutative: for all valid pattern lists A and B of one
\* root style and each mode, union(A, B) equals union(B, A).
C30_Commutative ==
    (United /\ ConsistentRoots(operands[1] \o operands[2]))
        => united = union(operands[2], operands[1], restrictive)

=============================================================================
